---- MODULE Spec2Model ----
(***************************************************************************)
(* A model of game.py: the generalized dice game, its commit-reveal        *)
(* protocol (FairRandomProtocol), the rejection sampler and keyed digest   *)
(* (RandomGenerator), the dice parser and the probability calculator.      *)
(*                                                                         *)
(* A Python str is a sequence of one-character strings; the character      *)
(* "sup2" stands for U+00B2 (superscript two), for which str.isdigit() is  *)
(* True and int() raises ValueError.  A bytes object is a sequence of      *)
(* integers in 0..255.  A name that may be unbound or None holds a         *)
(* sequence of at most one element: None is <<>>, the value v is <<v>>.    *)
(***************************************************************************)
EXTENDS Integers, Sequences, FiniteSets, TLC

None == <<>>
Some(v) == <<v>>
the(x) == x[1]

(***************************************************************************)
(* Bounds of the model.                                                    *)
(***************************************************************************)
\* Width in bits of the raw value the sampler draws.  The code draws
\* os.urandom(4), 32 bits; TLC's integers stop below 2^31, so the width is
\* a parameter of the sampler's operators and the runs use a narrow one.
RawBits == 4
\* Rejected inputs getUserNumber answers in one round before the model stops
\* offering invalid input.
MaxRetries == 2
\* Largest range n the stand-alone protocol is constructed with.
MaxN == 7
\* Largest range n of the instance whose operations are called in any order.
MaxApiN == 3
\* Dice lists the stand-alone probability calculator is applied to: up to
\* MaxDice dice of FaceLen faces with values in 0..MaxFace.
MaxDice == 2
FaceLen == 2
MaxFace == 2

(***************************************************************************)
(* Python str and int operations used by the program.                      *)
(***************************************************************************)
DigitChars == <<"0", "1", "2", "3", "4", "5", "6", "7", "8", "9">>
Digits == {DigitChars[i] : i \in 1..10}
DigitVal(c) == (CHOOSE i \in 1..10 : DigitChars[i] = c) - 1
\* Characters with Numeric_Type=Digit that are not decimal digits.
SuperscriptDigits == {"sup2"}
Whitespace == {" "}
UpperChars == <<"E", "X", "I", "T", "H", "L", "P", "Y", "N">>
LowerChars == <<"e", "x", "i", "t", "h", "l", "p", "y", "n">>

\* str.isdigit(): non-empty and every character is a digit character,
\* decimal or not.
isdigit(s) == Len(s) > 0 /\ \A i \in 1..Len(s) : s[i] \in Digits \cup SuperscriptDigits

RECURSIVE lstrip(_)
lstrip(s) == IF s # <<>> /\ Head(s) \in Whitespace THEN lstrip(Tail(s)) ELSE s

RECURSIVE rstrip(_)
rstrip(s) ==
    IF s # <<>> /\ s[Len(s)] \in Whitespace THEN rstrip(SubSeq(s, 1, Len(s) - 1)) ELSE s

strip(s) == rstrip(lstrip(s))

lowerChar(c) ==
    IF \E i \in 1..Len(UpperChars) : UpperChars[i] = c
    THEN LowerChars[CHOOSE i \in 1..Len(UpperChars) : UpperChars[i] = c]
    ELSE c

lower(s) == [i \in 1..Len(s) |-> lowerChar(s[i])]

\* str.split(sep) for a one-character separator: the pieces between the
\* separators, empty pieces included.
RECURSIVE split(_, _)
split(s, sep) ==
    IF \E i \in 1..Len(s) : s[i] = sep
    THEN LET k == CHOOSE i \in 1..Len(s) : s[i] = sep /\ \A j \in 1..(i - 1) : s[j] # sep
         IN <<SubSeq(s, 1, k - 1)>> \o split(SubSeq(s, k + 1, Len(s)), sep)
    ELSE <<s>>

\* The value of a string of decimal digits and single underscores.
RECURSIVE digitsValue(_, _)
digitsValue(s, acc) ==
    IF s = <<>> THEN acc
    ELSE IF Head(s) = "_" THEN digitsValue(Tail(s), acc)
    ELSE digitsValue(Tail(s), 10 * acc + DigitVal(Head(s)))

\* int(s) for a str, base 10: surrounding whitespace is dropped, one sign is
\* allowed, then decimal digits with single underscores between digits.
\* Anything else is a ValueError: the result says whether int() raises, and
\* its value if it does not.
int(s) ==
    LET t == strip(s)
        signed == t # <<>> /\ Head(t) \in {"+", "-"}
        body == IF signed THEN Tail(t) ELSE t
        wellFormed ==
            /\ body # <<>>
            /\ \A i \in 1..Len(body) : body[i] \in Digits \cup {"_"}
            /\ body[1] # "_"
            /\ body[Len(body)] # "_"
            /\ \A i \in 1..(Len(body) - 1) : ~(body[i] = "_" /\ body[i + 1] = "_")
    IN IF ~wellFormed THEN [raises |-> TRUE, value |-> 0]
       ELSE IF signed /\ Head(t) = "-"
       THEN [raises |-> FALSE, value |-> 0 - digitsValue(body, 0)]
       ELSE [raises |-> FALSE, value |-> digitsValue(body, 0)]

\* str(k) for an int.
RECURSIVE strNat(_)
strNat(k) ==
    IF k < 10 THEN <<DigitChars[k + 1]>> ELSE strNat(k \div 10) \o <<DigitChars[(k % 10) + 1]>>

str(k) == IF k < 0 THEN <<"-">> \o strNat(0 - k) ELSE strNat(k)

(***************************************************************************)
(* DiceParser.parse                                                        *)
(***************************************************************************)
\* One pass of the loop over args[1:], from argument i on, with the dice
\* built so far.  An argument that fails the length or isdigit test raises
\* the usage error; int() of a face may raise its own ValueError.
\* The messages of the ValueErrors: the first line, and the usage line the
\* message goes on with (none in the ValueError int() raises itself).
Usage == "Usage: python game.py 2,2,4,4,9,9 6,8,1,1,8,6 7,5,3,7,5,3"
AtLeast3Message ==
    [text |-> "At least 3 dice configurations are required.", usage |-> Usage]
Each6Message ==
    [text |-> "Each dice configuration must contain 6 integers.", usage |-> Usage]
InvalidLiteralMessage == [text |-> "invalid literal for int() with base 10", usage |-> ""]
NoMessage == [text |-> "", usage |-> ""]

RECURSIVE parseFrom(_, _, _)
parseFrom(args, i, dice) ==
    IF i > Len(args) THEN [ok |-> TRUE, error |-> NoMessage, dice |-> dice]
    ELSE LET values == split(args[i], ",")
         IN IF Len(values) # 6 \/ ~(\A k \in 1..Len(values) : isdigit(values[k]))
            THEN [ok |-> FALSE, error |-> Each6Message, dice |-> <<>>]
            ELSE IF \E k \in 1..6 : int(values[k]).raises
            THEN [ok |-> FALSE, error |-> InvalidLiteralMessage, dice |-> <<>>]
            ELSE parseFrom(args, i + 1, Append(dice, [k \in 1..6 |-> int(values[k]).value]))

parse(args) ==
    IF Len(args) < 4
    THEN [ok |-> FALSE, error |-> AtLeast3Message, dice |-> <<>>]
    ELSE parseFrom(args, 2, <<>>)

(***************************************************************************)
(* RandomGenerator                                                         *)
(***************************************************************************)
\* os.urandom(32): the length of a key in bytes.
KeyBytes == 32
\* The keys the runs draw: two of the 256^32 byte strings os.urandom(32) can
\* return.
KeySample == {[i \in 1..KeyBytes |-> 0], [i \in 1..KeyBytes |-> (i * 37) % 256]}

\* The integers int.from_bytes(os.urandom(..), 'big') can be for a raw value
\* of w bits.
RawValues(w) == 0..(2^w - 1)

\* A sampler without the rejection test: number % n of every raw value.
accepts_every(w, nn, number) == number < 2^w

\* The test of generate_secure_random_number on a drawn number of w bits:
\* number < (1 << w) - (1 << w) % n.
accepts(w, nn, number) == number < 2^w - (2^w % nn)

\* A sampler that returns the accepted number as it was drawn.
reduced_raw(nn, number) == number

\* The value generate_secure_random_number returns for an accepted number.
reduced(nn, number) == number % nn

\* message.encode(): the bytes of an ASCII string of digits and '-'.
encode(message) ==
    [i \in 1..Len(message) |->
        IF message[i] = "-" THEN 45 ELSE 48 + DigitVal(message[i])]

\* hmac.new(key, message.encode(), hashlib.sha3_256).hexdigest().  The
\* digest is the ideal keyed hash: a value fixed by the key and the bytes of
\* the message, different for different keys or bytes.
generate_hmac(key, message) == [hmac_sha3_256 |-> <<key, encode(message)>>]

HexChars ==
    <<"0", "1", "2", "3", "4", "5", "6", "7", "8", "9", "a", "b", "c", "d", "e", "f">>

\* binascii.hexlify(b).decode(): two lower-case hexadecimal digits a byte.
hexlify(b) ==
    [i \in 1..(2 * Len(b)) |->
        IF i % 2 = 1 THEN HexChars[(b[(i + 1) \div 2] \div 16) + 1]
        ELSE HexChars[(b[i \div 2] % 16) + 1]]

(***************************************************************************)
(* ProbabilityCalculator.calculate_probabilities                           *)
(***************************************************************************)
\* An inner loop that counts a tie as a win: val1 >= val2.
RECURSIVE countInner_ties(_, _, _)
countInner_ties(val1, values2, k) ==
    IF k > Len(values2) THEN 0
    ELSE (IF val1 >= values2[k] THEN 1 ELSE 0) + countInner_ties(val1, values2, k + 1)

\* The inner loop: val1 against the faces of dice2 from position k on.
RECURSIVE countInner(_, _, _)
countInner(val1, values2, k) ==
    IF k > Len(values2) THEN 0
    ELSE (IF val1 > values2[k] THEN 1 ELSE 0) + countInner(val1, values2, k + 1)

\* The two loops over the faces: win_count for dice1 against dice2, from
\* position k of dice1 on.
RECURSIVE countWins(_, _, _)
countWins(values1, values2, k) ==
    IF k > Len(values1) THEN 0
    ELSE countInner(values1[k], values2, 1) + countWins(values1, values2, k + 1)

\* A table whose entry (i, j) is what is left of 1 after dice j's wins:
\* 1 - P(j beats i).
calculate_probabilities_complement(dl) ==
    [ij \in (0..(Len(dl) - 1)) \X (0..(Len(dl) - 1)) |->
        [num |-> Len(dl[ij[1] + 1]) * Len(dl[ij[2] + 1])
                   - countWins(dl[ij[2] + 1], dl[ij[1] + 1], 1),
         den |-> Len(dl[ij[1] + 1]) * Len(dl[ij[2] + 1])]]

\* probabilities[(i, j)] = win_count / total_combinations for the 0-based
\* positions i, j of enumerate(); the quotient is kept as the fraction
\* num / den.
calculate_probabilities(dl) ==
    [ij \in (0..(Len(dl) - 1)) \X (0..(Len(dl) - 1)) |->
        [num |-> countWins(dl[ij[1] + 1], dl[ij[2] + 1], 1),
         den |-> Len(dl[ij[1] + 1]) * Len(dl[ij[2] + 1])]]

(***************************************************************************)
(* Dice and the selection of the computer's die                            *)
(***************************************************************************)
\* Dice.roll(): random.choice(self.values) returns one of the faces.
roll(values) == {values[i] : i \in 1..Len(values)}

\* A list of the other dice that compares the dice by their faces.
candidates_by_faces(dl, ud) == {j \in 1..Len(dl) : dl[j] # dl[ud]}

\* [dice for dice in self.dice_list if dice != user_dice].  Dice defines no
\* __eq__, so != compares identity; parse builds one object per argument, so
\* a die is identified by its position (1-based here) in dice_list.
candidates(dl, ud) == {j \in 1..Len(dl) : j # ud}

\* FairRandomProtocol(6) in Game.start.
ProtocolRange == 6

(***************************************************************************)
(* Inputs of the runs                                                      *)
(***************************************************************************)
ProgramName == <<"g", "a", "m", "e", ".", "p", "y">>
DieA == <<"2", ",", "2", ",", "2", ",", "9", ",", "9", ",", "9">>
DieB == <<"1", ",", "1", "0", ",", "1", ",", "1", "0", ",", "1", ",", "1", "0">>
DieC == <<"7", ",", "7", ",", "3", ",", "3", ",", "7", ",", "3">>
DieD == <<"0", "3", ",", "3", ",", "3", ",", "3", ",", "3", ",", "3">>
BadSpecs ==
    { <<"2", ",", "2", ",", "4", ",", "4", ",", "9">>,
      <<"2", ",", "2", ",", "4", ",", "4", ",", "9", ",", "9", ",", "9">>,
      <<"2", ",", "2", ",", "4", ",", "4", ",", "9", ",", "x">>,
      <<"2", ",", "2", ",", "4", ",", "4", ",", "9", ",", "-", "9">>,
      <<"2", ",", "2", ",", "4", ",", "4", ",", "9", ",">>,
      <<" ", "2", ",", "2", ",", "4", ",", "4", ",", "9", ",", "9">>,
      <<"2", ",", "2", ",", "4", ",", "4", ",", "9", ",", "+", "9">>,
      <<"2", ",", "2", ",", "4", ",", "4", ",", "9", ",", "sup2">>,
      <<"sup2", ",", "2", ",", "4", ",", "4", ",", "9">>,
      <<>> }

\* sys.argv: three different dice, three dice with the same faces, fewer than
\* three dice, and the three dice with one specification replaced by, or
\* followed by, a malformed one.
Argvs ==
    { <<ProgramName, DieA, DieB, DieC>>, <<ProgramName, DieD, DieD, DieD>>,
      <<ProgramName>>, <<ProgramName, DieA>>, <<ProgramName, DieA, DieB>> }
    \cup { <<ProgramName, b, DieB, DieC>> : b \in BadSpecs }
    \cup { <<ProgramName, DieA, b, DieC>> : b \in BadSpecs }
    \cup { <<ProgramName, DieA, DieB, b>> : b \in BadSpecs }
    \cup { <<ProgramName, DieA, DieB, DieC, b>> : b \in BadSpecs }
    \cup { <<ProgramName, b, c>> : b \in BadSpecs, c \in BadSpecs }

\* Lines typed at the dice prompt.
MenuInputs ==
    { <<"e", "x", "i", "t">>, <<" ", "E", "X", "I", "T">>, <<"E", "x", "i", "t", " ">>,
      <<"h", "e", "l", "p">>, <<"H", "e", "l", "p", " ">>,
      <<"1">>, <<"2">>, <<"3">>, <<" ", "2", " ">>,
      <<"0">>, <<"4">>, <<"1", "2">>, <<>>, <<" ">>, <<"x">>, <<"y">>,
      <<"-", "1">>, <<"+", "1">>, <<"1", " ", "2">>, <<"sup2">>, <<"1", "sup2">> }

\* Lines typed at the number prompt: the decimal numbers from -1 to MaxN + 1
\* and other spellings, of integers and of no integer.
NumberInputs ==
    { str(k) : k \in (0 - 1)..(MaxN + 1) }
    \cup { <<>>, <<" ">>, <<"a">>, <<"sup2">>, <<"-", "0">>, <<"+", "3">>,
           <<" ", "5", " ">>, <<"0", "5">>, <<"1", "_", "0">>, <<"_", "1">>,
           <<"-", " ", "1">>, <<"3", ".", "0">>, <<"1", "a">> }

\* Lines typed at "Play again? (y/n): ".
AgainInputs ==
    { <<"y">>, <<"Y">>, <<" ", "y", " ">>, <<"n">>, <<>>, <<"y", "e", "s">>,
      <<"e", "x", "i", "t">> }

(***************************************************************************)
(* State                                                                   *)
(***************************************************************************)
VARIABLES
    argv,             \* sys.argv
    pc,               \* where the program is
    exit_code,        \* the exit status of the process, once it has ended
    dice_list,        \* Game.dice_list: the faces of each die, in order
    console,          \* the last line Game printed
    choice,           \* Game.start: the line read at the dice prompt
    probabilities,    \* Game.start: the table computed for 'help'
    user_dice,        \* Game.start: position in dice_list of the user's die
    computer_dice,    \* Game.start: position in dice_list of the computer's
    user_roll,        \* Game.start
    computer_roll,    \* Game.start
    n,                \* FairRandomProtocol.n
    computer_key,     \* FairRandomProtocol.computer_key
    user_key,         \* FairRandomProtocol.user_key
    computer_number,  \* FairRandomProtocol.computer_number
    user_number,      \* FairRandomProtocol.user_number
    hmac,             \* FairRandomProtocol.hmac
    total,            \* the value calculateResult returned
    transcript,       \* the lines showProof and getUserNumber have printed
    rng               \* the generator each random choice of the round drew from

gameVars == <<argv, exit_code, dice_list, console, choice, probabilities>>
roundVars == <<user_dice, computer_dice, user_roll, computer_roll, rng>>
protocolVars == <<n, computer_key, user_key, computer_number, user_number, hmac>>
vars ==
    <<argv, pc, exit_code, dice_list, console, choice, probabilities, user_dice,
      computer_dice, user_roll, computer_roll, n, computer_key, user_key,
      computer_number, user_number, hmac, total, transcript, rng>>

\* No protocol instance, no round: the names of Game.start's loop body and
\* the protocol's fields are unbound.
NoRound ==
    /\ user_dice = None /\ computer_dice = None
    /\ user_roll = None /\ computer_roll = None
    /\ n = None /\ computer_key = None /\ user_key = None
    /\ computer_number = None /\ user_number = None /\ hmac = None
    /\ total = None /\ transcript = <<>> /\ rng = {}

\* The process is about to run Game(sys.argv).
Init ==
    /\ argv \in Argvs
    /\ pc = "start"
    /\ exit_code = None
    /\ dice_list = <<>>
    /\ console = NoMessage
    /\ choice = None
    /\ probabilities = None
    /\ NoRound

(***************************************************************************)
(* Game                                                                    *)
(***************************************************************************)
Line(t) == [text |-> t, usage |-> ""]
Exit == <<"e", "x", "i", "t">>
Help == <<"h", "e", "l", "p">>

\* Game(sys.argv) and the call of start() up to the first dice prompt: the
\* dice are parsed; a ValueError is printed and the process exits with 1.
Game_init ==
    /\ pc = "start"
    /\ LET r == parse(argv)
       IN IF r.ok
          THEN /\ dice_list' = r.dice
               /\ console' = Line("Available Dice:")
               /\ pc' = "menu"
               /\ exit_code' = exit_code
          ELSE /\ dice_list' = dice_list
               /\ console' = r.error
               /\ pc' = "exited"
               /\ exit_code' = Some(1)
    /\ UNCHANGED <<argv, choice, probabilities, total, transcript>>
    /\ UNCHANGED <<roundVars, protocolVars>>

\* choice = input(...).strip().lower()
read_choice(s) == lower(strip(s))

\* The test of the third branch of the loop:
\* choice.isdigit() and 1 <= int(choice) <= len(self.dice_list).
\* int(choice) is evaluated when isdigit() is True, and may raise.
selects(c, dl) == isdigit(c) /\ ~int(c).raises /\ 1 <= int(c).value /\ int(c).value <= Len(dl)
selection_raises(c) == isdigit(c) /\ int(c).raises

\* 'exit' at the dice prompt.
MenuExit(s) ==
    /\ pc = "menu"
    /\ read_choice(s) = Exit
    /\ choice' = Some(read_choice(s))
    /\ probabilities' = None
    /\ console' = Line("Thank you for playing!")
    /\ pc' = "exited"
    /\ exit_code' = Some(0)
    /\ UNCHANGED <<argv, dice_list, total, transcript>>
    /\ UNCHANGED <<roundVars, protocolVars>>

\* 'help' at the dice prompt: the table is computed and printed, and the
\* loop prompts again.
MenuHelp(s) ==
    /\ pc = "menu"
    /\ read_choice(s) = Help
    /\ choice' = Some(read_choice(s))
    /\ probabilities' = Some(calculate_probabilities(dice_list))
    /\ console' = Line("Probability Table (Winning Probabilities for Each Dice Pair):")
    /\ pc' = "menu"
    /\ UNCHANGED <<argv, exit_code, dice_list, total, transcript>>
    /\ UNCHANGED <<roundVars, protocolVars>>

\* Any other line that does not select a die: the loop prompts again.
MenuInvalid(s) ==
    /\ pc = "menu"
    /\ read_choice(s) \notin {Exit, Help}
    /\ ~selects(read_choice(s), dice_list)
    /\ ~selection_raises(read_choice(s))
    /\ choice' = Some(read_choice(s))
    /\ probabilities' = None
    /\ console' = Line("Invalid choice. Please select a valid dice or type 'help' or 'exit'.")
    /\ pc' = "menu"
    /\ UNCHANGED <<argv, exit_code, dice_list, total, transcript>>
    /\ UNCHANGED <<roundVars, protocolVars>>

\* A line for which isdigit() is True and int() raises: the ValueError is
\* caught nowhere, the interpreter prints the traceback and exits with 1.
MenuRaises(s) ==
    /\ pc = "menu"
    /\ read_choice(s) \notin {Exit, Help}
    /\ selection_raises(read_choice(s))
    /\ choice' = Some(read_choice(s))
    /\ probabilities' = None
    /\ console' = Line("Traceback (most recent call last): ValueError")
    /\ pc' = "crashed"
    /\ exit_code' = Some(1)
    /\ UNCHANGED <<argv, dice_list, total, transcript>>
    /\ UNCHANGED <<roundVars, protocolVars>>

\* A selection that takes the computer's die out of the dice list.
MenuSelect_removes(s) ==
    /\ pc = "menu"
    /\ read_choice(s) \notin {Exit, Help}
    /\ selects(read_choice(s), dice_list)
    /\ choice' = Some(read_choice(s))
    /\ probabilities' = None
    /\ LET ud == int(read_choice(s)).value
       IN /\ user_dice' = Some(ud)
          /\ \E cd \in candidates(dice_list, ud) :
                /\ computer_dice' = Some(cd)
                /\ \E cr \in roll(dice_list[cd]) : computer_roll' = Some(cr)
                /\ dice_list' = [i \in 1..(Len(dice_list) - 1) |->
                                   IF i < cd THEN dice_list[i] ELSE dice_list[i + 1]]
          /\ \E ur \in roll(dice_list[ud]) : user_roll' = Some(ur)
    /\ rng' = { <<"computer_dice", "random">>, <<"user_roll", "random">>,
                <<"computer_roll", "random">> }
    /\ console' = Line("Computer's roll:")
    /\ pc' = "construct"
    /\ UNCHANGED <<argv, exit_code, total, transcript>>
    /\ UNCHANGED protocolVars

\* A die is selected: the computer's die is chosen among the others, both
\* dice are rolled and the rolls printed; FairRandomProtocol(6) is called
\* next.
MenuSelect(s) ==
    /\ pc = "menu"
    /\ read_choice(s) \notin {Exit, Help}
    /\ selects(read_choice(s), dice_list)
    /\ choice' = Some(read_choice(s))
    /\ probabilities' = None
    /\ LET ud == int(read_choice(s)).value
       IN /\ user_dice' = Some(ud)
          /\ \E cd \in candidates(dice_list, ud) :
                /\ computer_dice' = Some(cd)
                /\ \E cr \in roll(dice_list[cd]) : computer_roll' = Some(cr)
          /\ \E ur \in roll(dice_list[ud]) : user_roll' = Some(ur)
    /\ rng' = { <<"computer_dice", "random">>, <<"user_roll", "random">>,
                <<"computer_roll", "random">> }
    /\ console' = Line("Computer's roll:")
    /\ pc' = "construct"
    /\ UNCHANGED <<argv, exit_code, dice_list, total, transcript>>
    /\ UNCHANGED protocolVars

(***************************************************************************)
(* FairRandomProtocol                                                      *)
(***************************************************************************)
\* __init__, lines 48-50: n and the two keys; the sampler's loop is next.
FairRandomProtocol_init(nn) ==
    /\ pc = "construct"
    /\ n' = Some(nn)
    /\ \E k \in KeySample : computer_key' = Some(k)
    /\ \E k \in KeySample : user_key' = Some(k)
    /\ rng' = rng \cup { <<"computer_key", "os.urandom">>, <<"user_key", "os.urandom">> }
    /\ pc' = "sampling"
    /\ UNCHANGED <<computer_number, user_number, hmac, total, transcript>>
    /\ UNCHANGED <<user_dice, computer_dice, user_roll, computer_roll>>
    /\ UNCHANGED gameVars

\* One pass of the loop of generate_secure_random_number(n) for a raw value
\* of w bits: an accepted number is reduced and returned, and __init__ ends
\* with user_number = None and the commitment; a rejected number is dropped
\* and the loop draws again.
generate_secure_random_number(w) ==
    /\ pc = "sampling"
    /\ \E number \in RawValues(w) :
          IF accepts(w, the(n), number)
          THEN /\ computer_number' = Some(reduced(the(n), number))
               /\ user_number' = None
               /\ hmac' = Some(generate_hmac(the(computer_key),
                                             str(reduced(the(n), number))))
               /\ pc' = "committed"
          ELSE UNCHANGED <<computer_number, user_number, hmac, pc>>
    /\ rng' = rng \cup { <<"computer_number", "os.urandom">> }
    /\ UNCHANGED <<n, computer_key, user_key, total, transcript>>
    /\ UNCHANGED <<user_dice, computer_dice, user_roll, computer_roll>>
    /\ UNCHANGED gameVars

Printed(line, value) == [line |-> line, value |-> value]
Prompt == Printed("Select a number between 0 and", the(n) - 1)

\* The inputs getUserNumber has rejected in this round.
rejected(t) ==
    Cardinality({i \in 1..Len(t) : t[i].line \in {"Please enter a valid number between 0 and",
                                                   "Invalid input. Please enter an integer."}})

\* A showProof that prints the computer's number with the commitment.
showProof_commit_discloses ==
    /\ pc = "committed"
    /\ transcript' = <<Printed("User HMAC", the(hmac)),
                       Printed("Computer number", str(the(computer_number))), Prompt>>
    /\ pc' = "prompt"
    /\ UNCHANGED <<total, roundVars, protocolVars, gameVars>>

\* showProof, line 72, and the first prompt of getUserNumber.
showProof_commit ==
    /\ pc = "committed"
    /\ transcript' = <<Printed("User HMAC", the(hmac)), Prompt>>
    /\ pc' = "prompt"
    /\ UNCHANGED <<total, roundVars, protocolVars, gameVars>>

\* getUserNumber: the line is no integer; the error is printed and the loop
\* prompts again.
getUserNumber_ValueError(s) ==
    /\ pc = "prompt"
    /\ rejected(transcript) < MaxRetries
    /\ int(s).raises
    /\ transcript' = transcript \o
            <<Printed("Invalid input. Please enter an integer.", 0), Prompt>>
    /\ pc' = "prompt"
    /\ UNCHANGED <<total, roundVars, protocolVars, gameVars>>

\* A getUserNumber that drops an integer outside [0, n) and prompts again.
getUserNumber_invalid_silent(s) ==
    /\ pc = "prompt"
    /\ rejected(transcript) < MaxRetries
    /\ ~int(s).raises
    /\ ~(0 <= int(s).value /\ int(s).value < the(n))
    /\ transcript' = transcript \o <<Prompt>>
    /\ pc' = "prompt"
    /\ UNCHANGED <<total, roundVars, protocolVars, gameVars>>

\* getUserNumber: the integer is outside [0, n); the error is printed and
\* the loop prompts again.
getUserNumber_invalid(s) ==
    /\ pc = "prompt"
    /\ rejected(transcript) < MaxRetries
    /\ ~int(s).raises
    /\ ~(0 <= int(s).value /\ int(s).value < the(n))
    /\ transcript' = transcript \o
            <<Printed("Please enter a valid number between 0 and", the(n) - 1), Prompt>>
    /\ pc' = "prompt"
    /\ UNCHANGED <<total, roundVars, protocolVars, gameVars>>

\* A getUserNumber that stores a valid choice and prompts again.
getUserNumber_valid_loops(s) ==
    /\ pc = "prompt"
    /\ ~int(s).raises
    /\ 0 <= int(s).value /\ int(s).value < the(n)
    /\ user_number' = Some(int(s).value)
    /\ pc' = "prompt"
    /\ UNCHANGED <<n, computer_key, user_key, computer_number, hmac>>
    /\ UNCHANGED <<total, transcript, roundVars, gameVars>>

\* A getUserNumber that tests only 0 <= user_number.
getUserNumber_valid_unbounded(s) ==
    /\ pc = "prompt"
    /\ ~int(s).raises
    /\ 0 <= int(s).value
    /\ user_number' = Some(int(s).value)
    /\ pc' = "chosen"
    /\ UNCHANGED <<n, computer_key, user_key, computer_number, hmac>>
    /\ UNCHANGED <<total, transcript, roundVars, gameVars>>

\* getUserNumber: the integer is in [0, n); it is stored and returned.
getUserNumber_valid(s) ==
    /\ pc = "prompt"
    /\ ~int(s).raises
    /\ 0 <= int(s).value /\ int(s).value < the(n)
    /\ user_number' = Some(int(s).value)
    /\ pc' = "chosen"
    /\ UNCHANGED <<n, computer_key, user_key, computer_number, hmac>>
    /\ UNCHANGED <<total, transcript, roundVars, gameVars>>

\* A calculateResult that adds without reducing.
calculateResult_sum == the(computer_number) + the(user_number)

calculateResult == (the(computer_number) + the(user_number)) % the(n)

\* A showProof that picks the computer's number once the user's is known,
\* so that the result is 0.
showProof_reveal_picks ==
    /\ pc = "chosen"
    /\ total' = Some(0)
    /\ computer_number' = Some((the(n) - the(user_number)) % the(n))
    /\ transcript' = transcript \o
            << Printed("User selected number", <<the(user_number), 0>>),
               Printed("Computer number", str((the(n) - the(user_number)) % the(n))),
               Printed("User Key", hexlify(the(user_key))),
               Printed("Computer Key", hexlify(the(computer_key))) >>
    /\ pc' = "revealed"
    /\ UNCHANGED <<n, computer_key, user_key, user_number, hmac>>
    /\ UNCHANGED <<roundVars, gameVars>>

\* showProof, lines 74-79: the result is computed, and printed with the
\* computer's number and the two keys.
showProof_reveal ==
    /\ pc = "chosen"
    /\ total' = Some(calculateResult)
    /\ transcript' = transcript \o
            << Printed("User selected number", <<the(user_number), calculateResult>>),
               Printed("Computer number", str(the(computer_number))),
               Printed("User Key", hexlify(the(user_key))),
               Printed("Computer Key", hexlify(the(computer_key))) >>
    /\ pc' = "revealed"
    /\ UNCHANGED <<roundVars, protocolVars, gameVars>>

\* An outcome decided by the roll of the user's die.
outcome_of_rolls(t, cr) ==
    IF the(user_roll) > cr THEN "You win!"
    ELSE IF the(user_roll) < cr THEN "Computer wins!" ELSE "It's a tie!"

(***************************************************************************)
(* Game.start after the protocol                                           *)
(***************************************************************************)
\* The result printed for total against computer_roll.
outcome(t, cr) ==
    IF t > cr THEN "You win!" ELSE IF t < cr THEN "Computer wins!" ELSE "It's a tie!"

\* Lines 147-153, up to the "Play again?" prompt.
announce ==
    /\ pc = "revealed"
    /\ user_dice # None
    /\ console' = Line(outcome(the(total), the(computer_roll)))
    /\ pc' = "again"
    /\ UNCHANGED <<argv, exit_code, dice_list, choice, probabilities>>
    /\ UNCHANGED <<total, transcript, roundVars, protocolVars>>

\* input("Play again? (y/n): ").strip().lower() != 'y'
declines(s) == lower(strip(s)) # <<"y">>

\* A loop that keeps the protocol of the finished round for the next one.
play_again_keeps(s) ==
    /\ pc = "again"
    /\ ~declines(s)
    /\ pc' = "menu"
    /\ console' = Line("Available Dice:")
    /\ choice' = None
    /\ probabilities' = None
    /\ user_dice' = None /\ computer_dice' = None
    /\ user_roll' = None /\ computer_roll' = None
    /\ total' = None /\ transcript' = <<>> /\ rng' = {}
    /\ UNCHANGED protocolVars
    /\ UNCHANGED <<argv, exit_code, dice_list>>

\* 'y': the loop starts over, and the names of the finished round are dead.
play_again(s) ==
    /\ pc = "again"
    /\ ~declines(s)
    /\ pc' = "menu"
    /\ console' = Line("Available Dice:")
    /\ choice' = None
    /\ probabilities' = None
    /\ user_dice' = None /\ computer_dice' = None
    /\ user_roll' = None /\ computer_roll' = None
    /\ n' = None /\ computer_key' = None /\ user_key' = None
    /\ computer_number' = None /\ user_number' = None /\ hmac' = None
    /\ total' = None /\ transcript' = <<>> /\ rng' = {}
    /\ UNCHANGED <<argv, exit_code, dice_list>>

\* Anything else: the loop ends and start() returns.
play_again_no(s) ==
    /\ pc = "again"
    /\ declines(s)
    /\ console' = Line("Thank you for playing!")
    /\ pc' = "exited"
    /\ exit_code' = Some(0)
    /\ UNCHANGED <<argv, dice_list, choice, probabilities>>
    /\ UNCHANGED <<total, transcript, roundVars, protocolVars>>

(***************************************************************************)
(* The program: python game.py <dice>                                      *)
(***************************************************************************)
Next ==
    \/ Game_init
    \/ \E s \in MenuInputs : MenuExit(s)
    \/ \E s \in MenuInputs : MenuHelp(s)
    \/ \E s \in MenuInputs : MenuInvalid(s)
    \/ \E s \in MenuInputs : MenuRaises(s)
    \/ \E s \in MenuInputs : MenuSelect(s)
    \/ FairRandomProtocol_init(ProtocolRange)
    \/ generate_secure_random_number(RawBits)
    \/ showProof_commit
    \/ \E s \in NumberInputs : getUserNumber_ValueError(s)
    \/ \E s \in NumberInputs : getUserNumber_invalid(s)
    \/ \E s \in NumberInputs : getUserNumber_valid(s)
    \/ showProof_reveal
    \/ announce
    \/ \E s \in AgainInputs : play_again(s)
    \/ \E s \in AgainInputs : play_again_no(s)

Spec == Init /\ [][Next]_vars

(***************************************************************************)
(* FairRandomProtocol(n).showProof() on its own, for n in 1..MaxN          *)
(***************************************************************************)
ProtoInit ==
    /\ argv = <<>>
    /\ pc = "construct"
    /\ exit_code = None
    /\ dice_list = <<>>
    /\ console = NoMessage
    /\ choice = None
    /\ probabilities = None
    /\ NoRound

ProtoNext ==
    \/ \E nn \in 1..MaxN : FairRandomProtocol_init(nn)
    \/ generate_secure_random_number(RawBits)
    \/ showProof_commit
    \/ \E s \in NumberInputs : getUserNumber_ValueError(s)
    \/ \E s \in NumberInputs : getUserNumber_invalid(s)
    \/ \E s \in NumberInputs : getUserNumber_valid(s)
    \/ showProof_reveal

ProtoSpec == ProtoInit /\ [][ProtoNext]_vars

\* The protocol when the sampler eventually draws a number it accepts, the
\* user eventually enters an integer in [0, n), and the program, which
\* blocks only in input(), takes its own steps.
accepted_pass == generate_secure_random_number(RawBits) /\ pc' = "committed"

FairProtoSpec ==
    /\ ProtoSpec
    /\ WF_vars(accepted_pass)
    /\ WF_vars(showProof_commit)
    /\ WF_vars(\E s \in NumberInputs : getUserNumber_valid(s))
    /\ WF_vars(showProof_reveal)

(***************************************************************************)
(* The sampler on its own, for every n a raw value of RawBits bits allows  *)
(***************************************************************************)
SamplerNext ==
    \/ \E nn \in 1..(2^RawBits) : FairRandomProtocol_init(nn)
    \/ generate_secure_random_number(RawBits)

SamplerSpec == ProtoInit /\ [][SamplerNext]_vars

(***************************************************************************)
(* ProbabilityCalculator.calculate_probabilities on its own                *)
(***************************************************************************)
\* Dice of FaceLen faces with values in 0..MaxFace.
SmallDice == [1..FaceLen -> 0..MaxFace]
SmallDiceLists == UNION { [1..d -> SmallDice] : d \in 1..MaxDice }

ProbInit ==
    /\ argv = <<>>
    /\ pc = "calculate"
    /\ exit_code = None
    /\ dice_list \in SmallDiceLists
    /\ console = NoMessage
    /\ choice = None
    /\ probabilities = None
    /\ NoRound

calculate ==
    /\ pc = "calculate"
    /\ probabilities' = Some(calculate_probabilities(dice_list))
    /\ pc' = "calculated"
    /\ UNCHANGED <<argv, exit_code, dice_list, console, choice, total, transcript>>
    /\ UNCHANGED <<roundVars, protocolVars>>

ProbSpec == ProbInit /\ [][calculate]_vars

(***************************************************************************)
(* Properties                                                              *)
(***************************************************************************)
Has(t, name) == \E i \in 1..Len(t) : t[i].line = name
First(t, name) == CHOOSE i \in 1..Len(t) : t[i].line = name /\ \A j \in 1..(i - 1) : t[j].line # name
Value(t, name) == t[First(t, name)].value
PromptLine == "Select a number between 0 and"
RevealLines == {"User selected number", "Computer number", "User Key", "Computer Key"}
ErrorLines ==
    {"Please enter a valid number between 0 and", "Invalid input. Please enter an integer."}

\* C1: the transcript of a round is ordered.  The commitment is the first
\* line and is printed once, the prompt follows it, and every line of the
\* reveal (the chosen number and result, the computer's number, the keys)
\* comes after a prompt and only when user_number holds a choice in [0, n);
\* while user_number is unset the transcript holds no line of the reveal.
C1_TranscriptOrdered ==
    /\ transcript # <<>> =>
          /\ Len(transcript) >= 2
          /\ transcript[1].line = "User HMAC"
          /\ transcript[2].line = PromptLine
          /\ \A i \in 2..Len(transcript) : transcript[i].line # "User HMAC"
    /\ \A i \in 1..Len(transcript) :
          transcript[i].line \in RevealLines =>
             /\ user_number # None
             /\ the(user_number) \in 0..(the(n) - 1)
             /\ \E j \in 2..(i - 1) : transcript[j].line = PromptLine
    /\ user_number = None =>
          \A i \in 1..Len(transcript) : transcript[i].line \notin RevealLines

\* A round of the game whose reveal followed a rejected input.
C1_Witness ==
    /\ pc = "revealed"
    /\ user_dice # None
    /\ rejected(transcript) >= 1
    /\ Has(transcript, "Computer number")
    /\ Has(transcript, "Computer Key")

\* What a verifier does with the printed key: binascii.unhexlify.
hexValue(c) == (CHOOSE i \in 1..16 : HexChars[i] = c) - 1
unhexlify(h) ==
    [i \in 1..(Len(h) \div 2) |-> 16 * hexValue(h[2 * i - 1]) + hexValue(h[2 * i])]

InProtocol == {"committed", "prompt", "chosen", "revealed", "again", "exited"}

\* C2: the commitment verifies.  Once the reveal is printed, the keyed
\* digest of the printed computer key (decoded from hexadecimal) and the
\* printed computer number is the commitment printed first; and from the end
\* of the construction on, no step of the round changes the computer's
\* number, the computer's key or the commitment.
C2_CommitmentVerifies ==
    /\ [](Has(transcript, "Computer Key") =>
             generate_hmac(unhexlify(Value(transcript, "Computer Key")),
                           Value(transcript, "Computer number"))
               = Value(transcript, "User HMAC"))
    /\ [][(pc \in InProtocol /\ pc' \in InProtocol) =>
             /\ computer_number' = computer_number
             /\ computer_key' = computer_key
             /\ hmac' = hmac]_vars

\* A reveal that followed MaxRetries rejected inputs.
C2_Witness ==
    /\ pc = "revealed"
    /\ rejected(transcript) = MaxRetries
    /\ Has(transcript, "Computer Key")
    /\ the(computer_key) # the(user_key)

\* C3: the result of a round is (computer_number + user_number) mod n.  For
\* every n, the total showProof returns and prints lies in [0, n) and
\* differs from computer_number + user_number by a multiple of n; for n = 6,
\* computer_number = 3 and user_number = 4 it is 1.
C3_RoundResult ==
    total # None =>
       /\ the(computer_number) \in 0..(the(n) - 1)
       /\ the(user_number) \in 0..(the(n) - 1)
       /\ the(total) \in 0..(the(n) - 1)
       /\ \E q \in 0..1 : the(computer_number) + the(user_number) = q * the(n) + the(total)
       /\ Value(transcript, "User selected number") = <<the(user_number), the(total)>>
       /\ (the(n) = 6 /\ the(computer_number) = 3 /\ the(user_number) = 4) => the(total) = 1

\* The round of the example.
C3_Witness ==
    /\ pc = "revealed"
    /\ the(n) = 6 /\ the(computer_number) = 3 /\ the(user_number) = 4
    /\ the(total) = 1

\* C4: a rejected input leaves the protocol where it was.  A step of
\* getUserNumber that prompts again prints an error and the prompt and
\* changes nothing else: user_number stays unset, n, the keys, the
\* computer's number and the commitment are unchanged and no result is
\* computed.  At the prompt the inputs -1 and n are never accepted.  And
\* user_number is only ever a value in [0, n).
C4_RejectedInput ==
    /\ [][(pc = "prompt" /\ pc' = "prompt") =>
             /\ UNCHANGED protocolVars
             /\ user_number = None
             /\ total = None /\ total' = None
             /\ Len(transcript') = Len(transcript) + 2
             /\ SubSeq(transcript', 1, Len(transcript)) = transcript
             /\ transcript'[Len(transcript) + 1].line \in ErrorLines
             /\ transcript'[Len(transcript) + 2].line = PromptLine]_vars
    /\ [](pc = "prompt" =>
             /\ ~ENABLED getUserNumber_valid(str(0 - 1))
             /\ ~ENABLED getUserNumber_valid(str(the(n)))
             /\ ~ENABLED getUserNumber_valid(<<"a">>))
    /\ [](user_number # None => the(user_number) \in 0..(the(n) - 1))

\* Two inputs have been rejected, and the protocol still waits for a choice.
C4_Witness ==
    /\ pc = "prompt"
    /\ rejected(transcript) = 2
    /\ Has(transcript, "Invalid input. Please enter an integer.")
    /\ Has(transcript, "Please enter a valid number between 0 and")
    /\ user_number = None

\* C5: the sampler is exactly uniform.  For the range n of the protocol and
\* every width w up to RawBits with n <= 2^w, each r in [0, n) is the result
\* of exactly floor(2^w / n) of the raw values the sampler accepts; and the
\* number the sampler returned lies in [0, n).
C5_Uniform ==
    n # None =>
       /\ \A w \in 1..RawBits :
             the(n) <= 2^w =>
                \A r \in 0..(the(n) - 1) :
                   Cardinality({v \in RawValues(w) :
                                   accepts(w, the(n), v) /\ reduced(the(n), v) = r})
                     = (2^w) \div the(n)
       /\ computer_number # None => the(computer_number) \in 0..(the(n) - 1)

\* The sampler returned n - 1 for an n that does not divide 2^RawBits.
C5_Witness ==
    /\ pc = "committed"
    /\ (2^RawBits) % the(n) # 0
    /\ the(computer_number) = the(n) - 1

\* The pairs of face positions of dice a and b, and those among them where
\* the face of a is greater than, or equal to, the face of b.
FacePairs(a, b) == (1..Len(a)) \X (1..Len(b))
Greater(a, b) == {xy \in FacePairs(a, b) : a[xy[1]] > b[xy[2]]}
Equal(a, b) == {xy \in FacePairs(a, b) : a[xy[1]] = b[xy[2]]}

\* C6: the table of calculate_probabilities.  It has an entry for each of
\* the d * d ordered pairs (i, j), i = j included; the entry is win_count
\* over |faces_i| * |faces_j|, where win_count is the number of face pairs
\* with the face of die i strictly greater; every entry lies in [0, 1]; and
\* the dice are not modified.
C6_Table ==
    /\ [](probabilities # None =>
             LET t == the(probabilities)
                 D == 0..(Len(dice_list) - 1)
             IN /\ DOMAIN t = D \X D
                /\ \A i \in D, j \in D :
                      LET a == dice_list[i + 1]
                          b == dice_list[j + 1]
                      IN /\ t[<<i, j>>].den = Len(a) * Len(b)
                         /\ t[<<i, j>>].num = Cardinality(Greater(a, b))
                         /\ 0 <= t[<<i, j>>].num
                         /\ t[<<i, j>>].num <= t[<<i, j>>].den)
    /\ [][dice_list' = dice_list]_vars

\* A table of two dice that tie on a face pair, with a diagonal entry that
\* is neither 0 nor 1.
C6_Witness ==
    /\ pc = "calculated"
    /\ Len(dice_list) = 2
    /\ Equal(dice_list[1], dice_list[2]) # {}
    /\ the(probabilities)[<<0, 1>>].num > 0
    /\ the(probabilities)[<<1, 1>>].num > 0

\* C7: in the table, for every pair of dice i, j, the wins of i over j, the
\* wins of j over i and the ties between them add up to all the face pairs:
\* P(i beats j) + P(j beats i) + P(tie) = 1.
C7_Symmetry ==
    probabilities # None =>
       LET t == the(probabilities)
           D == 0..(Len(dice_list) - 1)
       IN \A i \in D, j \in D :
             /\ t[<<i, j>>].den = t[<<j, i>>].den
             /\ t[<<i, j>>].num + t[<<j, i>>].num
                  + Cardinality(Equal(dice_list[i + 1], dice_list[j + 1]))
                  = t[<<i, j>>].den

\* Two different dice for which P(i beats j) is not 1 - P(j beats i).
C7_Witness ==
    /\ pc = "calculated"
    /\ Len(dice_list) = 2
    /\ dice_list[1] # dice_list[2]
    /\ the(probabilities)[<<0, 1>>].num > 0
    /\ the(probabilities)[<<1, 0>>].num > 0
    /\ the(probabilities)[<<0, 1>>].num + the(probabilities)[<<1, 0>>].num
         # the(probabilities)[<<0, 1>>].den

\* A specification of exactly 6 comma-separated non-negative integers: six
\* non-empty strings of decimal digits.
SixNonNegativeIntegers(a) ==
    LET v == split(a, ",")
    IN /\ Len(v) = 6
       /\ \A k \in 1..6 : v[k] # <<>> /\ \A c \in 1..Len(v[k]) : v[k][c] \in Digits

ValidConfiguration(args) ==
    /\ Len(args) - 1 >= 3
    /\ \A i \in 2..Len(args) : SixNonNegativeIntegers(args[i])

\* C8, without the usage message: parse succeeds exactly for at least 3
\* specifications of 6 non-negative integers each; otherwise Game prints the
\* error and exits with status 1, and nothing of a round has happened.
C8_RejectedConfiguration ==
    pc # "start" =>
       /\ parse(argv).ok <=> ValidConfiguration(argv)
       /\ ValidConfiguration(argv) => Len(dice_list) = Len(argv) - 1
       /\ ~ValidConfiguration(argv) =>
             /\ pc = "exited"
             /\ exit_code = Some(1)
             /\ console.text # ""
             /\ dice_list = <<>> /\ choice = None /\ probabilities = None
             /\ NoRound

\* C8: rejection of an invalid configuration.  As above, and the error that
\* is printed carries the usage message.
C8_UsageOnInvalidConfiguration ==
    /\ C8_RejectedConfiguration
    /\ (pc # "start" /\ ~ValidConfiguration(argv)) => console.usage = Usage

\* C9: invalid input never ends the process.  The process started by a
\* valid configuration ends only with 'exit' at the dice prompt or with an
\* answer other than 'y' to "Play again?", after the closing line; it never
\* ends by an exception.
C9_EndsOnlyOnRequest ==
    /\ pc # "crashed"
    /\ (pc = "exited" /\ dice_list # <<>>) =>
          /\ console = Line("Thank you for playing!")
          /\ exit_code = Some(0)
          /\ choice = Some(Exit) \/ total # None

\* C10: the rolls are faces of the rolled dice, and every random choice of
\* a round is drawn from the secure source.
C10_SecureRolls ==
    /\ user_roll # None => the(user_roll) \in roll(dice_list[the(user_dice)])
    /\ computer_roll # None => the(computer_roll) \in roll(dice_list[the(computer_dice)])
    /\ \A e \in rng : e[2] = "os.urandom"

NoProtocol ==
    /\ n = None /\ computer_key = None /\ user_key = None
    /\ computer_number = None /\ user_number = None /\ hmac = None
    /\ total = None /\ transcript = <<>>

\* C11: every round has a protocol instance of its own.  At the dice prompt
\* and when a round calls FairRandomProtocol(6) no instance exists: none is
\* carried over.  The construction draws both keys and then the number from
\* os.urandom, leaves user_number unset and commits to the number just
\* drawn under the key just drawn.  An instance prints its reveal at most
\* once, and the step back to the dice prompt drops it.
C11_FreshInstance ==
    /\ [](pc \in {"start", "menu", "construct"} => NoProtocol)
    /\ [](Cardinality({i \in 1..Len(transcript) : transcript[i].line = "Computer Key"}) <= 1)
    /\ [][(pc = "construct" /\ pc' # "construct") =>
             /\ pc' = "sampling"
             /\ computer_key' # None /\ user_key' # None
             /\ computer_number' = None /\ user_number' = None /\ hmac' = None
             /\ <<"computer_key", "os.urandom">> \in rng'
             /\ <<"user_key", "os.urandom">> \in rng']_vars
    /\ [][(pc = "sampling" /\ pc' # "sampling") =>
             /\ pc' = "committed"
             /\ UNCHANGED <<n, computer_key, user_key>>
             /\ computer_number' # None /\ user_number' = None
             /\ <<"computer_number", "os.urandom">> \in rng'
             /\ hmac' = Some(generate_hmac(the(computer_key), str(the(computer_number'))))]_vars
    /\ [][(pc = "again" /\ pc' = "menu") =>
             /\ n' = None /\ computer_key' = None /\ user_key' = None
             /\ computer_number' = None /\ user_number' = None /\ hmac' = None
             /\ total' = None /\ transcript' = <<>>]_vars

\* A round of the game holds a new instance: keys and number drawn, the
\* commitment computed, no choice yet and nothing printed.
C11_Witness ==
    /\ pc = "committed"
    /\ user_dice # None
    /\ computer_key # None /\ user_key # None /\ computer_number # None
    /\ hmac = Some(generate_hmac(the(computer_key), str(the(computer_number))))
    /\ user_number = None
    /\ transcript = <<>>

(***************************************************************************)
(* The public operations of one FairRandomProtocol(n), called in any order *)
(***************************************************************************)
\* With pc = "committed" the instance is constructed and no call is running.
\* A call of showProof is showProof_commit, the steps of getUserNumber and
\* showProof_reveal; transcript holds the lines of the running call and is
\* empty between calls, so its first line tells showProof from a direct call
\* of getUserNumber.
TypeErrorMessage == Line("TypeError: unsupported operand type(s) for +: 'int' and 'NoneType'")

\* getUserNumber() called directly: the prompt is printed.
call_getUserNumber ==
    /\ pc = "committed"
    /\ transcript' = <<Prompt>>
    /\ pc' = "prompt"
    /\ UNCHANGED <<total, roundVars, protocolVars, gameVars>>

\* The direct call of getUserNumber returns user_number.
return_getUserNumber ==
    /\ pc = "chosen"
    /\ transcript[1].line = "Select a number between 0 and"
    /\ pc' = "committed"
    /\ transcript' = <<>>
    /\ UNCHANGED <<total, roundVars, protocolVars, gameVars>>

\* showProof goes on after its own call of getUserNumber.
showProof_continues ==
    /\ pc = "chosen"
    /\ transcript[1].line = "User HMAC"
    /\ showProof_reveal

\* showProof returns total.
return_showProof ==
    /\ pc = "revealed"
    /\ pc' = "committed"
    /\ transcript' = <<>>
    /\ UNCHANGED <<total, roundVars, protocolVars, gameVars>>

\* A calculateResult that takes an unset user_number for 0.
call_calculateResult_lenient ==
    /\ pc = "committed"
    /\ total' = IF user_number = None
                THEN Some(the(computer_number) % the(n))
                ELSE Some(calculateResult)
    /\ UNCHANGED <<pc, transcript, roundVars, protocolVars, gameVars>>

\* calculateResult() called directly: with user_number None the sum raises
\* TypeError and nothing is returned; otherwise the total is returned.
call_calculateResult ==
    /\ pc = "committed"
    /\ IF user_number = None
       THEN /\ console' = TypeErrorMessage
            /\ total' = total
       ELSE /\ console' = console
            /\ total' = Some(calculateResult)
    /\ UNCHANGED <<argv, exit_code, dice_list, choice, probabilities>>
    /\ UNCHANGED <<pc, transcript, roundVars, protocolVars>>

ApiNext ==
    \/ \E nn \in 1..MaxApiN : FairRandomProtocol_init(nn)
    \/ generate_secure_random_number(RawBits)
    \/ showProof_commit
    \/ call_getUserNumber
    \/ call_calculateResult
    \/ \E s \in NumberInputs : getUserNumber_ValueError(s)
    \/ \E s \in NumberInputs : getUserNumber_invalid(s)
    \/ \E s \in NumberInputs : getUserNumber_valid(s)
    \/ return_getUserNumber
    \/ showProof_continues
    \/ return_showProof

ApiSpec == ProtoInit /\ [][ApiNext]_vars

\* The state of the instance, read from its fields: 0 Initialized (under
\* construction), 1 Committed, 2 CounterpartChosen, 3 Revealed (a result has
\* been returned).
Stage ==
    IF hmac = None THEN 0
    ELSE IF user_number = None THEN 1
    ELSE IF total = None THEN 2
    ELSE 3

\* C12: the instance moves Initialized -> Committed -> CounterpartChosen ->
\* Revealed.  Whatever the order in which getUserNumber, calculateResult and
\* showProof are called, a step leaves the state of the instance where it is
\* or moves it to the next one; a result is returned, and a reveal printed,
\* only when user_number is set.
C12_StateOrder ==
    /\ [][Stage' = Stage \/ Stage' = Stage + 1]_vars
    /\ [](total # None => user_number # None)
    /\ [](Has(transcript, "Computer number") => user_number # None /\ total # None)

\* calculateResult was called before any choice and raised; later a choice
\* was made and showProof printed the reveal.
C12_Witness ==
    /\ console = TypeErrorMessage
    /\ pc = "revealed"
    /\ Stage = 3
    /\ Has(transcript, "Computer number")

\* C13: the rejection rule of generate_secure_random_number.  For the range
\* n of the instance and every width w up to RawBits with n <= 2^w, the
\* threshold 2^w - (2^w mod n) is floor(2^w / n) * n, a raw value v is
\* accepted exactly when v < floor(2^w / n) * n, and the value returned for
\* it is v mod n, in [0, n).  A pass of the loop either returns v mod n for
\* such a v, or returns nothing and leaves the instance as it was, to draw
\* again; each of the two is possible exactly when such a v, or a v at or
\* above the threshold, exists.
Threshold(w, nn) == ((2^w) \div nn) * nn

C13_RejectionRule ==
    /\ [](n # None =>
            \A w \in 1..RawBits :
               the(n) <= 2^w =>
                  /\ 2^w - (2^w % the(n)) = Threshold(w, the(n))
                  /\ \A v \in RawValues(w) :
                        /\ accepts(w, the(n), v) <=> v < Threshold(w, the(n))
                        /\ reduced(the(n), v) = v % the(n)
                        /\ reduced(the(n), v) \in 0..(the(n) - 1))
    /\ [][pc = "sampling" =>
            \/ /\ pc' = "committed"
               /\ \E v \in 0..(Threshold(RawBits, the(n)) - 1) :
                     computer_number' = Some(v % the(n))
            \/ /\ pc' = "sampling"
               /\ Threshold(RawBits, the(n)) < 2^RawBits
               /\ UNCHANGED <<computer_number, user_number, hmac, n>>]_vars
    /\ [](pc = "sampling" =>
            \A v \in RawValues(RawBits) :
               v < Threshold(RawBits, the(n)) =>
                  ENABLED (/\ generate_secure_random_number(RawBits)
                           /\ computer_number' = Some(v % the(n))))

\* A pass of the loop rejected its raw value and the sampler is about to
\* draw again, for an n that does not divide 2^RawBits.
C13_Witness ==
    /\ pc = "sampling"
    /\ <<"computer_number", "os.urandom">> \in rng
    /\ computer_number = None
    /\ Threshold(RawBits, the(n)) < 2^RawBits

\* C14: every rejected input is reported before the next prompt.  In the
\* lines a round has printed, the first prompt follows the commitment and
\* every later prompt directly follows an error message; every error message
\* is directly followed by a prompt; so the prompts are one more than the
\* error messages.  And a step of getUserNumber at the prompt either accepts
\* the input, printing nothing, or prints an error message first.
Count(t, names) == Cardinality({i \in 1..Len(t) : t[i].line \in names})

C14_RejectionReported ==
    /\ [](\A i \in 1..Len(transcript) :
             /\ transcript[i].line = PromptLine =>
                   /\ i > 1
                   /\ transcript[i - 1].line \in
                         (IF i = 2 THEN {"User HMAC"} ELSE ErrorLines)
             /\ transcript[i].line \in ErrorLines =>
                   /\ i < Len(transcript)
                   /\ transcript[i + 1].line = PromptLine)
    /\ [](pc \in {"prompt", "chosen", "revealed"} =>
             Count(transcript, {PromptLine}) = Count(transcript, ErrorLines) + 1)
    /\ [][pc = "prompt" =>
             \/ /\ pc' = "chosen"
                /\ user_number' # None
                /\ transcript' = transcript
             \/ /\ pc' = "prompt"
                /\ user_number' = None
                /\ Len(transcript') > Len(transcript)
                /\ transcript'[Len(transcript) + 1].line \in ErrorLines]_vars

\* A round is over in which an integer outside [0, n) and a line that is no
\* integer were each rejected before the choice was accepted.
C14_Witness ==
    /\ pc = "revealed"
    /\ Count(transcript, {"Invalid input. Please enter an integer."}) = 1
    /\ Count(transcript, {"Please enter a valid number between 0 and"}) = 1
    /\ Count(transcript, {PromptLine}) = 3

\* C15: getUserNumber loops until the input is valid.  With a sampler that
\* eventually accepts and a user who eventually enters an integer in
\* [0, n), every round whose instance is being constructed reaches the
\* reveal with a result in [0, n).  At the prompt an integer in [0, n) is
\* accepted and cannot be rejected; any other line cannot be accepted; and
\* the loop is left exactly by the step that stores a choice in [0, n).
ValidChoice(s) == ~int(s).raises /\ int(s).value \in 0..(the(n) - 1)

C15_LoopsUntilValid ==
    /\ (pc = "sampling") ~>
          (/\ pc = "revealed"
           /\ total # None
           /\ the(total) \in 0..(the(n) - 1)
           /\ Has(transcript, "Computer Key"))
    /\ [](pc = "prompt" =>
            \A s \in NumberInputs :
               IF ValidChoice(s)
               THEN /\ ENABLED getUserNumber_valid(s)
                    /\ ~ENABLED getUserNumber_invalid(s)
                    /\ ~ENABLED getUserNumber_ValueError(s)
               ELSE ~ENABLED getUserNumber_valid(s))
    /\ [][pc = "prompt" =>
             IF user_number' # None
             THEN /\ pc' = "chosen"
                  /\ \E s \in NumberInputs :
                        ValidChoice(s) /\ int(s).value = the(user_number')
             ELSE pc' = "prompt"]_vars

\* A round of range 6 reached the reveal after MaxRetries rejected inputs.
C15_Witness ==
    /\ pc = "revealed"
    /\ the(n) = 6
    /\ rejected(transcript) = MaxRetries
    /\ the(total) = 0

\* C16: the dice do not change.  Once the arguments are parsed, the dice
\* list holds one die for each argument, its faces the decimal values of the
\* six numbers of the argument in their order; no later step (help, an
\* invalid choice, a round, play again, exit) changes the dice list; and
\* while the game runs there are at least 3 dice of exactly 6 non-negative
\* integers each.
GameRuns == pc # "start" /\ ~(pc = "exited" /\ exit_code = Some(1))

C16_DiceImmutable ==
    /\ [][pc = "start" /\ pc' = "menu" =>
             /\ Len(dice_list') = Len(argv) - 1
             /\ \A i \in 1..Len(dice_list') :
                   /\ Len(dice_list'[i]) = 6
                   /\ \A k \in 1..6 :
                         dice_list'[i][k] = digitsValue(split(argv[i + 1], ",")[k], 0)]_vars
    /\ [][pc # "start" => dice_list' = dice_list]_vars
    /\ [](GameRuns =>
            /\ Len(dice_list) >= 3
            /\ \A i \in 1..Len(dice_list) :
                  /\ Len(dice_list[i]) = 6
                  /\ \A k \in 1..6 : dice_list[i][k] \in Nat)

\* A round has been played to its outcome with the third of the dice
\* 2,2,2,9,9,9  1,10,1,10,1,10  7,7,3,3,7,3, and the list holds them still.
C16_Witness ==
    /\ pc = "again"
    /\ user_dice = Some(3)
    /\ dice_list = << <<2, 2, 2, 9, 9, 9>>, <<1, 10, 1, 10, 1, 10>>, <<7, 7, 3, 3, 7, 3>> >>

\* C17: the computer plays another die than the user.  In every round the
\* user's die is at a position k of the dice list, 1 <= k <= number of dice,
\* k the number the user entered; the computer's die is at another position
\* of the list, also when dice have the same faces.  At the dice prompt every
\* selection leaves the computer a die to choose.
InRound == pc \in {"construct", "sampling", "committed", "prompt", "chosen",
                   "revealed", "again"}

C17_AnotherDie ==
    /\ pc = "menu" =>
          \A k \in 1..Len(dice_list) : candidates(dice_list, k) # {}
    /\ InRound => user_dice # None
    /\ user_dice # None =>
          /\ the(user_dice) \in 1..Len(dice_list)
          /\ ~int(the(choice)).raises
          /\ int(the(choice)).value = the(user_dice)
          /\ computer_dice # None
          /\ the(computer_dice) \in 1..Len(dice_list)
          /\ the(computer_dice) # the(user_dice)

\* A round with three dice of the same faces: the user plays the first and
\* the computer the second.
C17_Witness ==
    /\ InRound
    /\ Len(dice_list) = 3
    /\ dice_list[1] = dice_list[2] /\ dice_list[2] = dice_list[3]
    /\ user_dice = Some(1)
    /\ computer_dice = Some(2)

\* C18: the outcome of a round.  When the outcome is announced the result
\* of the protocol is in [0, 6) and the line printed is 'You win!' exactly
\* if the result is greater than the computer's roll, 'Computer wins!'
\* exactly if it is less, and "It's a tie!" exactly if they are equal,
\* whatever the user's roll is; so the user does not win against a
\* computer's roll of 5 or more.
C18_Outcome ==
    pc = "again" =>
       /\ the(total) \in 0..5
       /\ console.text \in {"You win!", "Computer wins!", "It's a tie!"}
       /\ console.text = "You win!" <=> the(total) > the(computer_roll)
       /\ console.text = "Computer wins!" <=> the(total) < the(computer_roll)
       /\ console.text = "It's a tie!" <=> the(total) = the(computer_roll)
       /\ the(computer_roll) >= 5 => console.text # "You win!"

\* The user rolled more than the computer, and the computer wins the round.
C18_Witness ==
    /\ pc = "again"
    /\ the(user_roll) > the(computer_roll)
    /\ the(computer_roll) >= 5
    /\ console.text = "Computer wins!"

====
